---- MODULE Spec2Model ----
(***************************************************************************)
(* LSB image steganography (stego_tool.py) and its capacity report         *)
(* (stego_bpp.py).  The state is the two image files the tools work on and *)
(* the outcome of the last tool invocation.  Every invocation is one       *)
(* action: embed_message, extract_message, compute_bpp.                    *)
(***************************************************************************)
EXTENDS Integers, Sequences, FiniteSets, TLC

(* ------------------------------ bounds --------------------------------- *)
MaxWidth == 8
MaxHeight == 4
MaxMsgLen == 2
MaxDeclared == 1
\* Embeds applied in place to one stego file, after the embed that wrote it.
MaxChain == 2

\* A header value no image of the model can satisfy: 0x07070707 bytes.
\* (Header values stay below 2^28 so that length * 8 is a TLC integer;
\* Python integers are unbounded.)
HugeDeclared == 117901063

\* Code points of the message alphabet: one of each UTF-8 width (1..4 bytes)
\* and a lone surrogate, which str.encode("utf-8") refuses.
Alphabet == <<65, 233, 8364, 128512, 55296>>

\* The message of n code points that runs through the alphabet from `start`.
Message(start, n) == [i \in 1..n |-> Alphabet[((start + i - 2) % Len(Alphabet)) + 1]]

Messages == {Message(start, n) : start \in 1..Len(Alphabet), n \in 0..MaxMsgLen}

(* --------------------------- small helpers ----------------------------- *)
Min(a, b) == IF a < b THEN a ELSE b

RECURSIVE Pow2(_)
Pow2(n) == IF n = 0 THEN 1 ELSE 2 * Pow2(n - 1)

\* Python slice s[a:b] for 0 <= a, 0 <= b (indices clipped to the length).
Slice(s, a, b) == SubSeq(s, a + 1, Min(b, Len(s)))

RECURSIVE Flatten(_)
Flatten(ss) == IF ss = <<>> THEN <<>> ELSE Head(ss) \o Flatten(Tail(ss))

(* ------------------------- str.encode / decode ------------------------- *)
IsSurrogate(cp) == cp >= 55296 /\ cp <= 57343

Encodable(msg) == \A i \in 1..Len(msg) : ~IsSurrogate(msg[i])

EncodeCodePoint(cp) ==
    IF cp < 128 THEN <<cp>>
    ELSE IF cp < 2048 THEN <<192 + (cp \div 64), 128 + (cp % 64)>>
    ELSE IF cp < 65536
         THEN <<224 + (cp \div 4096), 128 + ((cp \div 64) % 64), 128 + (cp % 64)>>
    ELSE <<240 + (cp \div 262144), 128 + ((cp \div 4096) % 64),
           128 + ((cp \div 64) % 64), 128 + (cp % 64)>>

\* message.encode("utf-8") for a message without lone surrogates.
utf8_encode(msg) == Flatten([i \in 1..Len(msg) |-> EncodeCodePoint(msg[i])])

IsCont(b) == b >= 128 /\ b <= 191

\* Admissible second byte after lead byte b (well-formed UTF-8 table).
SecondOk(b, c) ==
    IF b = 224 THEN c >= 160 /\ c <= 191
    ELSE IF b = 237 THEN c >= 128 /\ c <= 159
    ELSE IF b = 240 THEN c >= 144 /\ c <= 191
    ELSE IF b = 244 THEN c >= 128 /\ c <= 143
    ELSE IsCont(c)

\* Number of bytes the sequence led by b needs; 0 for an invalid start byte.
SeqLen(b) ==
    IF b < 128 THEN 1
    ELSE IF b >= 194 /\ b <= 223 THEN 2
    ELSE IF b >= 224 /\ b <= 239 THEN 3
    ELSE IF b >= 240 /\ b <= 244 THEN 4
    ELSE 0

\* How many bytes from position i on form a valid prefix of one sequence.
ValidPrefix(bs, i) ==
    LET n == SeqLen(bs[i])
        ok2 == i + 1 <= Len(bs) /\ SecondOk(bs[i], bs[i + 1])
        ok3 == ok2 /\ i + 2 <= Len(bs) /\ IsCont(bs[i + 2])
        ok4 == ok3 /\ i + 3 <= Len(bs) /\ IsCont(bs[i + 3])
    IN  IF n <= 1 THEN 1
        ELSE IF ~ok2 THEN 1
        ELSE IF n = 2 THEN 2
        ELSE IF ~ok3 THEN 2
        ELSE IF n = 3 THEN 3
        ELSE IF ~ok4 THEN 3
        ELSE 4

DecodeCodePoint(bs, i, n) ==
    IF n = 1 THEN bs[i]
    ELSE IF n = 2 THEN (bs[i] - 192) * 64 + (bs[i + 1] - 128)
    ELSE IF n = 3
         THEN (bs[i] - 224) * 4096 + (bs[i + 1] - 128) * 64 + (bs[i + 2] - 128)
    ELSE (bs[i] - 240) * 262144 + (bs[i + 1] - 128) * 4096
         + (bs[i + 2] - 128) * 64 + (bs[i + 3] - 128)

\* U+FFFD, the replacement marker of errors="replace".
REPLACEMENT == 65533

\* bytes.decode("utf-8", errors="replace"): each maximal ill-formed
\* subsequence becomes one U+FFFD.
RECURSIVE DecodeFrom(_, _)
DecodeFrom(bs, i) ==
    IF i > Len(bs) THEN <<>>
    ELSE LET n == SeqLen(bs[i])
             k == ValidPrefix(bs, i)
         IN  IF n > 0 /\ k = n
             THEN <<DecodeCodePoint(bs, i, n)>> \o DecodeFrom(bs, i + n)
             ELSE <<REPLACEMENT>> \o DecodeFrom(bs, i + k)

utf8_decode(bs) == DecodeFrom(bs, 1)

(* ------------------------------ bit codec ------------------------------ *)
\* Variant: least significant bit first (shift = 0 up to 7).
ByteBits_LsbFirst(byte) == [j \in 1..8 |-> (byte \div Pow2(j - 1)) % 2]

\* The 8 bits of one byte, shift = 7 down to 0.
ByteBits(byte) == [j \in 1..8 |-> (byte \div Pow2(8 - j)) % 2]

\* The generator of _to_bits, collected: bit k of the stream is bit (k mod 8)
\* of byte (k div 8), most significant first.
_to_bits(data) == [k \in 1..(8 * Len(data)) |-> ByteBits(data[((k - 1) \div 8) + 1])[((k - 1) % 8) + 1]]

\* The loop of _bits_to_bytes from bit i on, with its locals current, count, out.
RECURSIVE BitsToBytesLoop(_, _, _, _, _)
BitsToBytesLoop(bits, i, current, count, out) ==
    IF i > Len(bits) THEN out
    ELSE LET cur == current * 2 + bits[i]
         IN  IF count + 1 = 8
             THEN BitsToBytesLoop(bits, i + 1, 0, 0, Append(out, cur))
             ELSE BitsToBytesLoop(bits, i + 1, cur, count + 1, out)

_bits_to_bytes(bits) == BitsToBytesLoop(bits, 1, 0, 0, <<>>)

(* ---------------------------- length header ---------------------------- *)
\* length < 0 or length > 0xFFFFFFFF, written without a 33-bit literal.
PackLengthFails(length) == length < 0 \/ (length \div 65536) > 65535

\* length.to_bytes(4, "big")
_pack_length(length) ==
    <<(length \div 16777216) % 256, (length \div 65536) % 256,
      (length \div 256) % 256, length % 256>>

UnpackLengthFails(length_bytes) == Len(length_bytes) # 4

\* int.from_bytes(length_bytes, "big")
_unpack_length(length_bytes) ==
    ((length_bytes[1] * 256 + length_bytes[2]) * 256 + length_bytes[3]) * 256
    + length_bytes[4]

(* ------------------------------- images -------------------------------- *)
Paths == {"cover", "stego"}

NoFile == [width |-> -1, height |-> -1, data |-> <<>>]

\* Upper bits and payload-region LSBs of the cover images.
Tiles == { <<255, 1, 37>>,
           <<201, 77, 2, 0, 128, 254, 3, 255, 129, 0, 51, 100, 7, 42, 18, 255>> }

HeaderValues == (0..MaxDeclared) \cup {HugeDeclared}

\* Bit i (0 = first, most significant) of the 32-bit header value hv < 2^31.
HeaderBit(hv, i) == IF i = 0 THEN 0 ELSE (hv \div Pow2(31 - i)) % 2

\* Channel i (from 0) of the cover built from a tile and a header value:
\* the first 32 LSBs spell hv, everything else is the tile repeated.
CoverChannel(tile, hv, i) ==
    LET v == tile[(i % Len(tile)) + 1]
    IN  IF i < 32 THEN (v - (v % 2)) + HeaderBit(hv, i) ELSE v

CoverImage(w, h, tile, hv) ==
    [width |-> w, height |-> h,
     data |-> [k \in 1..(w * h) |->
                 <<CoverChannel(tile, hv, 3 * (k - 1)),
                   CoverChannel(tile, hv, 3 * (k - 1) + 1),
                   CoverChannel(tile, hv, 3 * (k - 1) + 2)>>]]

Covers == {CoverImage(w, h, t, hv) :
             w \in 0..MaxWidth, h \in 0..MaxHeight, t \in Tiles, hv \in HeaderValues}

\* The flat channel sequence of an image: raster order, R,G,B interleaved.
Channels(img) ==
    [i \in 1..(3 * Len(img.data)) |-> img.data[((i - 1) \div 3) + 1][((i - 1) % 3) + 1]]

(* -------------------------------- embed -------------------------------- *)
\* Variant: (c & 0xFC) | bit, a mask that clears two bits.
SetLsb_WideMask(c, bit) == (c - (c % 4)) + bit

\* Variant: c | bit, the old LSB is not cleared first.
SetLsb_OrOnly(c, bit) == IF c % 2 = 1 THEN c ELSE c + bit

\* (c & 0xFE) | bit
SetLsb(c, bit) == (c - (c % 2)) + bit

\* Variant: a StopIteration handler appends the pixel as it was read,
\* losing the channels already rewritten in this iteration.
EmbedPixel_DropPartial(p, bits, pos) ==
    IF pos + 3 <= Len(bits)
    THEN [pixel |-> <<SetLsb(p[1], bits[pos + 1]), SetLsb(p[2], bits[pos + 2]),
                      SetLsb(p[3], bits[pos + 3])>>, pos |-> pos + 3]
    ELSE [pixel |-> p, pos |-> Len(bits)]

\* Variant: once the iterator is exhausted the remaining LSBs are padded with 0.
EmbedPixel_PadZero(p, bits, pos) ==
    LET bit(j) == IF pos + j <= Len(bits) THEN bits[pos + j] ELSE 0
    IN  [pixel |-> <<SetLsb(p[1], bit(1)), SetLsb(p[2], bit(2)), SetLsb(p[3], bit(3))>>,
         pos |-> Min(pos + 3, Len(bits))]

\* One iteration of the pixel loop; pos is the number of bits already taken
\* from the iterator flat_bits.  next() raises StopIteration iff pos = Len(bits).
EmbedPixel(p, bits, pos) ==
    IF pos >= Len(bits) THEN [pixel |-> p, pos |-> pos]
    ELSE LET r == SetLsb(p[1], bits[pos + 1])
         IN  IF pos + 1 >= Len(bits)
             THEN [pixel |-> <<r, p[2], p[3]>>, pos |-> pos + 1]
             ELSE LET g == SetLsb(p[2], bits[pos + 2])
                  IN  IF pos + 2 >= Len(bits)
                      THEN [pixel |-> <<r, g, p[3]>>, pos |-> pos + 2]
                      ELSE [pixel |-> <<r, g, SetLsb(p[3], bits[pos + 3])>>,
                            pos |-> pos + 3]

RECURSIVE EmbedLoop(_, _, _, _)
EmbedLoop(pixels, bits, k, pos) ==
    IF k > Len(pixels) THEN <<>>
    ELSE LET st == EmbedPixel(pixels[k], bits, pos)
         IN  <<st.pixel>> \o EmbedLoop(pixels, bits, k + 1, st.pos)

\* The frame of a message as a bit list: header + payload through _to_bits.
FrameBits(message) ==
    LET payload == utf8_encode(message)
    IN  _to_bits(_pack_length(Len(payload)) \o payload)

\* Variant: >= in place of >.
CapacityExceeded_OrEqual(nbits, capacity_bits) == nbits >= capacity_bits

\* len(payload_bits) > capacity_bits
CapacityExceeded(nbits, capacity_bits) == nbits > capacity_bits

\* Variant: the capacity is reported in bits.
ReportedCapacity_Bits(capacity_bits) == capacity_bits

\* capacity_bits // 8
ReportedCapacity(capacity_bits) == capacity_bits \div 8

\* len(payload_bits) // 8

ReportedNeeded(nbits) == nbits \div 8

E_ENCODE == "UnicodeEncodeError"
E_RANGE == "ValueError: Message length must fit in 32 bits"
E_CAPACITY == "ValueError: Message too large for image"
E_HEADER == "ValueError: Invalid length header"
E_INCOMPLETE == "ValueError: Image does not contain a complete message"
E_NOFILE == "FileNotFoundError"

\* embed_message on the decoded input image: the outcome and, on success,
\* the image that is saved.
embed_message(img, message) ==
    LET pixels == img.data
        fail(e, c, n) == [status |-> e, capacity |-> c, needed |-> n, image |-> NoFile]
    IN  IF ~Encodable(message) THEN fail(E_ENCODE, 0, 0)
        ELSE IF PackLengthFails(Len(utf8_encode(message))) THEN fail(E_RANGE, 0, 0)
        ELSE LET payload_bits == FrameBits(message)
                 capacity_bits == Len(pixels) * 3
             IN  IF CapacityExceeded(Len(payload_bits), capacity_bits)
                 THEN fail(E_CAPACITY, ReportedCapacity(capacity_bits),
                           ReportedNeeded(Len(payload_bits)))
                 ELSE [status |-> "ok", capacity |-> 0, needed |-> 0,
                       image |-> [width |-> img.width, height |-> img.height,
                                  data |-> EmbedLoop(pixels, payload_bits, 1, 0)]]

(* ------------------------------- extract ------------------------------- *)
\* bits.extend((r & 1, g & 1, b & 1)) over all pixels.
LsbBits(pixels) == [i \in 1..(3 * Len(pixels)) |->
                      pixels[((i - 1) \div 3) + 1][((i - 1) % 3) + 1] % 2]

\* Variant: the slice is compared with the byte count.
TruncatedPayload_Bytes(message_bits, message_bit_count) ==
    Len(message_bits) < message_bit_count \div 8

\* len(message_bits) < message_bit_count
TruncatedPayload(message_bits, message_bit_count) == Len(message_bits) < message_bit_count

extract_message(img) ==
    LET bits == LsbBits(img.data)
        length_bytes == _bits_to_bytes(Slice(bits, 0, 32))
        fail(e) == [status |-> e, text |-> <<>>]
    IN  IF UnpackLengthFails(length_bytes) THEN fail(E_HEADER)
        ELSE LET message_length == _unpack_length(length_bytes)
                 message_bit_count == message_length * 8
                 message_bits == Slice(bits, 32, 32 + message_bit_count)
             IN  IF TruncatedPayload(message_bits, message_bit_count)
                 THEN fail(E_INCOMPLETE)
                 ELSE LET message_bytes == _bits_to_bytes(message_bits)
                      IN  [status |-> "ok", text |-> utf8_decode(message_bytes)]

(* ----------------------------- compute_bpp ----------------------------- *)
HEADER_BITS == 32
\* Variant: an alpha channel is counted as well.
CHANNELS_RGBA == 3 + 1

CHANNELS == 3
BITS_PER_CHANNEL == 1

NoReport == [width |-> 0, height |-> 0, pixels |-> 0, capacity_bits |-> 0,
             capacity_bytes |-> 0, header_bits |-> 0, payload_bits |-> 0,
             total_bits |-> 0, used_bpp |-> <<0, 1>>, fits |-> FALSE]

\* Variant: < in place of <=.
Fits_Strict(total_bits, capacity_bits) == total_bits < capacity_bits

\* total_bits <= capacity_bits
Fits(total_bits, capacity_bits) == total_bits <= capacity_bits

\* The report of compute_bpp; used_bpp is the exact quotient <<num, den>>.
compute_bpp(img, message) ==
    LET width == img.width
        height == img.height
        pixels == width * height
        capacity_bits == pixels * CHANNELS * BITS_PER_CHANNEL
        header_bits == HEADER_BITS
        payload_bits == Len(utf8_encode(message)) * 8
        total_bits == header_bits + payload_bits
        used_bpp == IF pixels # 0 THEN <<total_bits, pixels>> ELSE <<0, 1>>
    IN  [width |-> width, height |-> height, pixels |-> pixels,
         capacity_bits |-> capacity_bits, capacity_bytes |-> capacity_bits \div 8,
         header_bits |-> header_bits, payload_bits |-> payload_bits,
         total_bits |-> total_bits, used_bpp |-> used_bpp,
         fits |-> Fits(total_bits, capacity_bits)]

(* ---------------------------- state machine ---------------------------- *)
VARIABLES files, last, chain

vars == <<files, last, chain>>

\* The outcome of one tool invocation.
Outcome(op, inp, out, msg, status, capacity, needed, text, report) ==
    [op |-> op, inp |-> inp, out |-> out, msg |-> msg, status |-> status,
     capacity |-> capacity, needed |-> needed, text |-> text, report |-> report]

Init ==
    /\ \E c \in Covers : files = [p \in Paths |-> IF p = "cover" THEN c ELSE NoFile]
    /\ last = Outcome("none", "", "", <<>>, "none", 0, 0, <<>>, NoReport)
    /\ chain = 0

\* Variant: the pixel loop runs and the image is saved before the capacity
\* check, so an oversized frame leaves its first capacity_bits bits behind.
Embed_WriteThenCheck(inp, out, msg) ==
    IF files[inp] = NoFile \/ ~Encodable(msg)
    THEN /\ last' = Outcome("embed", inp, out, msg,
                            IF files[inp] = NoFile THEN E_NOFILE ELSE E_ENCODE,
                            0, 0, <<>>, NoReport)
         /\ UNCHANGED files
    ELSE \E res \in {embed_message(files[inp], msg)} :
             /\ last' = Outcome("embed", inp, out, msg, res.status, res.capacity,
                                res.needed, <<>>, NoReport)
             /\ files' = [files EXCEPT ![out] =
                            [width |-> files[inp].width, height |-> files[inp].height,
                             data |-> EmbedLoop(files[inp].data, FrameBits(msg), 1, 0)]]

\* python stego_tool.py embed --in inp --out out --text msg
Embed(inp, out, msg) ==
    IF files[inp] = NoFile
    THEN /\ last' = Outcome("embed", inp, out, msg, E_NOFILE, 0, 0, <<>>, NoReport)
         /\ UNCHANGED files
    ELSE \E res \in {embed_message(files[inp], msg)} :
             /\ last' = Outcome("embed", inp, out, msg, res.status, res.capacity,
                                res.needed, <<>>, NoReport)
             /\ files' = IF res.status = "ok"
                         THEN [files EXCEPT ![out] = res.image]
                         ELSE files

\* python stego_tool.py extract --in inp
Extract(inp) ==
    /\ UNCHANGED files
    /\ IF files[inp] = NoFile
       THEN last' = Outcome("extract", inp, "", <<>>, E_NOFILE, 0, 0, <<>>, NoReport)
       ELSE \E res \in {extract_message(files[inp])} :
                last' = Outcome("extract", inp, "", <<>>, res.status, 0, 0,
                                res.text, NoReport)

\* python stego_bpp.py --image inp --text msg
ComputeBpp(inp, msg) ==
    /\ UNCHANGED files
    /\ IF files[inp] = NoFile
       THEN last' = Outcome("bpp", inp, "", msg, E_NOFILE, 0, 0, <<>>, NoReport)
       ELSE IF ~Encodable(msg)
       THEN last' = Outcome("bpp", inp, "", msg, E_ENCODE, 0, 0, <<>>, NoReport)
       ELSE last' = Outcome("bpp", inp, "", msg, "ok", 0, 0, <<>>,
                            compute_bpp(files[inp], msg))

EmbedCover == chain' = 0 /\ \E msg \in Messages : Embed("cover", "stego", msg)

ExtractAny == UNCHANGED chain /\ \E inp \in Paths : Extract(inp)

ReportCover == UNCHANGED chain /\ \E msg \in Messages : ComputeBpp("cover", msg)

\* stego_tool.py
Next == EmbedCover \/ ExtractAny

Spec == Init /\ [][Next]_vars

\* stego_bpp.py
NextBpp == ReportCover

SpecBpp == Init /\ [][NextBpp]_vars

\* Both tools run on the same cover image: the pre-flight report and the embed.
NextTools == ReportCover \/ EmbedCover

SpecTools == Init /\ [][NextTools]_vars

\* Embeds one after another on the same image: the first writes the stego
\* file from the cover, the later ones read and overwrite the stego file.
EmbedInPlace ==
    /\ chain < MaxChain
    /\ chain' = chain + 1
    /\ \E msg \in Messages : Embed("stego", "stego", msg)

ExtractStego == UNCHANGED chain /\ Extract("stego")

\* The embed that starts a chain: the stego file does not exist yet.
EmbedFirst == files["stego"] = NoFile /\ EmbedCover

NextSeq == EmbedFirst \/ EmbedInPlace \/ ExtractStego

\* The chains start from the covers of full size.
InitSeq ==
    /\ \E c \in {d \in Covers : d.width = MaxWidth /\ d.height = MaxHeight} :
          files = [p \in Paths |-> IF p = "cover" THEN c ELSE NoFile]
    /\ last = Outcome("none", "", "", <<>>, "none", 0, 0, <<>>, NoReport)
    /\ chain = 0

SpecSeq == InitSeq /\ [][NextSeq]_vars

(* ------------------------------- claims -------------------------------- *)
EmbedDone == last.op = "embed" /\ last.status = "ok"

NumChannels(img) == 3 * Len(img.data)

\* 32 + 8 * len(payload), from the payload alone.
FrameBitCount(msg) == 32 + 8 * Len(utf8_encode(msg))

\* Bit i (from 0) of the wire format: the 32-bit big-endian payload length,
\* then the payload bytes, most significant bit first.
WireBit(msg, i) ==
    IF i < 32 THEN HeaderBit(Len(utf8_encode(msg)), i)
    ELSE (utf8_encode(msg)[((i - 32) \div 8) + 1] \div Pow2(7 - (i % 8))) % 2

\* The number spelled by the first n bits, most significant first.
RECURSIVE BinValue(_, _)
BinValue(bits, n) == IF n = 0 THEN 0 ELSE 2 * BinValue(bits, n - 1) + bits[n]

\* The length the first 32 LSBs of a channel sequence declare.
DeclaredLength(ch) == BinValue([i \in 1..32 |-> ch[i] % 2], 32)

\* Payload byte j (from 1) spelled by the LSBs after the header.
PayloadByte(ch, j) == BinValue([i \in 1..8 |-> ch[32 + 8 * (j - 1) + i] % 2], 8)

\* C1: round trip.  Whenever an embed of a message whose frame fits the
\* input image (32 + 8*len(payload) <= number of channels) is followed by
\* an extract of the image it wrote, the extract returns exactly the message.
C1_RoundTrip ==
    [][(/\ last.op = "embed" /\ last'.op = "extract" /\ last'.inp = last.out
        /\ Encodable(last.msg)
        /\ FrameBitCount(last.msg) <= NumChannels(files[last.inp]))
       => (last'.status = "ok" /\ last'.text = last.msg)]_vars

C1_Witness ==
    /\ last.op = "extract" /\ last.inp = "stego" /\ last.status = "ok"
    /\ last.text = <<233, 8364>>
    /\ files["cover"] # files["stego"]

\* C2: capacity boundary.  For a message that has a UTF-8 payload, embed
\* fails with the capacity error iff the frame bit count exceeds 3 * pixel
\* count, and succeeds otherwise (equality included).
C2_CapacityBoundary ==
    (last.op = "embed" /\ Encodable(last.msg)) =>
        LET over == FrameBitCount(last.msg) > 3 * Len(files[last.inp].data)
        IN  /\ (last.status = E_CAPACITY) <=> over
            /\ (last.status = "ok") <=> ~over

C2_Witness ==
    /\ EmbedDone
    /\ FrameBitCount(last.msg) = 3 * Len(files[last.inp].data)

C2_WitnessOneBitOver ==
    /\ last.op = "embed" /\ last.status = E_CAPACITY
    /\ FrameBitCount(last.msg) = 3 * Len(files[last.inp].data) + 1

\* C3: atomicity.  A step in which embed fails with the capacity error
\* changes no file: the input is as it was and nothing is written.
C3_Atomicity ==
    [][(last'.op = "embed" /\ last'.status = E_CAPACITY) => files' = files]_vars

C3_Witness ==
    /\ last.op = "embed" /\ last.status = E_CAPACITY
    /\ NumChannels(files[last.inp]) >= 32
    /\ files[last.out] = NoFile

\* C4: unaffected tail.  After a successful embed the output has as many
\* channels as the input, equals it from index totalBits on, and below
\* totalBits agrees with it on the upper 7 bits.
C4_UnaffectedTail ==
    EmbedDone =>
        LET in == Channels(files[last.inp])
            out == Channels(files[last.out])
            total == FrameBitCount(last.msg)
        IN  /\ Len(out) = Len(in)
            /\ files[last.out].width = files[last.inp].width
            /\ files[last.out].height = files[last.inp].height
            /\ \A i \in 1..Len(in) :
                 IF i > total THEN out[i] = in[i]
                 ELSE out[i] \div 2 = in[i] \div 2

C4_Witness ==
    /\ EmbedDone
    /\ LET in == Channels(files[last.inp])
           out == Channels(files[last.out])
           total == FrameBitCount(last.msg)
       IN  /\ \E i \in 1..total : out[i] # in[i] /\ in[i] >= 2
           /\ \E i \in (total + 1)..Len(in) : in[i] % 2 = 1

\* C5: wire format.  After a successful embed every output channel i below
\* the frame length is (input[i] & 0xFE) | bit i of the frame (big-endian
\* 32-bit payload length, then the payload, MSB first, channels in raster
\* order R,G,B), and every other channel is the input channel: the pixel
\* loop equals the index-bounded definition.
C5_WireFormat ==
    EmbedDone =>
        LET in == Channels(files[last.inp])
            out == Channels(files[last.out])
            total == FrameBitCount(last.msg)
        IN  out = [i \in 1..Len(in) |->
                     IF i <= total
                     THEN (in[i] - (in[i] % 2)) + WireBit(last.msg, i - 1)
                     ELSE in[i]]

\* The frame ends on the first channel of a pixel, followed by odd channels.
C5_Witness ==
    /\ EmbedDone
    /\ FrameBitCount(last.msg) % 3 = 1
    /\ Len(last.msg) = 2
    /\ LET in == Channels(files[last.inp])
           total == FrameBitCount(last.msg)
       IN  /\ Len(in) >= total + 2
           /\ in[total + 1] % 2 = 1
           /\ in[total] % 2 # WireBit(last.msg, total - 1)

\* C6 (as claimed): an extract from fewer than 32 channels fails with the
\* incomplete-message error, not with the malformed-header error.
C6_ShortImageIsTruncated ==
    (last.op = "extract" /\ files[last.inp] # NoFile
        /\ NumChannels(files[last.inp]) < 32)
    => (last.status = E_INCOMPLETE /\ last.text = <<>>)

\* C7: for at least 32 channels, extract fails with the incomplete-message
\* error iff fewer than 8 * (declared length) channels follow the header;
\* otherwise it returns the text decoded from exactly the declared number
\* of payload bytes.
C7_CompleteOrError ==
    (last.op = "extract" /\ files[last.inp] # NoFile
        /\ NumChannels(files[last.inp]) >= 32)
    => LET ch == Channels(files[last.inp])
           declared == DeclaredLength(ch)
       IN  IF Len(ch) - 32 < 8 * declared
           THEN last.status = E_INCOMPLETE /\ last.text = <<>>
           ELSE /\ last.status = "ok"
                /\ last.text = utf8_decode([j \in 1..declared |-> PayloadByte(ch, j)])

\* Some but not all of the declared payload bits are present.
C7_Witness ==
    /\ last.op = "extract" /\ last.status = E_INCOMPLETE
    /\ LET ch == Channels(files[last.inp])
       IN  /\ Len(ch) > 32
           /\ DeclaredLength(ch) = 1

C7_WitnessComplete ==
    /\ last.op = "extract" /\ last.inp = "cover" /\ last.status = "ok"
    /\ last.text = <<REPLACEMENT>>

\* C8: empty message.  On an image of at least 32 channels embed of ""
\* succeeds, clears the LSBs of the first 32 channels, leaves every other
\* bit and channel as it was, and extract of the result returns "".
C8_EmptyMessage ==
    (last.op = "embed" /\ last.msg = <<>> /\ NumChannels(files[last.inp]) >= 32)
    => /\ last.status = "ok"
       /\ LET in == Channels(files[last.inp])
              out == Channels(files[last.out])
          IN  out = [i \in 1..Len(in) |->
                       IF i <= 32 THEN in[i] - (in[i] % 2) ELSE in[i]]
       /\ extract_message(files[last.out]) = [status |-> "ok", text |-> <<>>]

C8_Witness ==
    /\ EmbedDone /\ last.msg = <<>>
    /\ LET in == Channels(files[last.inp])
       IN  /\ \E i \in 1..32 : in[i] % 2 = 1
           /\ \E i \in 33..Len(in) : in[i] % 2 = 1

\* C9: the capacity error reports capacity = channels div 8 and needed =
\* frame bits / 8 rounded up; a 2x2 image with the empty message reports
\* capacity 1 and needed 4.
C9_CapacityErrorReport ==
    (last.op = "embed" /\ last.status = E_CAPACITY)
    => /\ last.capacity = NumChannels(files[last.inp]) \div 8
       /\ last.needed = (FrameBitCount(last.msg) + 7) \div 8
       /\ (files[last.inp].width = 2 /\ files[last.inp].height = 2 /\ last.msg = <<>>)
          => (last.capacity = 1 /\ last.needed = 4)

C9_Witness ==
    /\ last.op = "embed" /\ last.status = E_CAPACITY
    /\ files[last.inp].width = 2 /\ files[last.inp].height = 2 /\ last.msg = <<>>
    /\ last.capacity = 1 /\ last.needed = 4

\* C10: the capacity report.  For a w x h image and a message of n UTF-8
\* bytes the report has pixels = w*h, capacity_bits = 3*w*h, capacity_bytes
\* = capacity_bits div 8, header_bits = 32, payload_bits = 8n, total_bits =
\* 32 + 8n and fits = (total_bits <= capacity_bits); a 0-pixel image is
\* reported (no failure) with capacity_bits = 0 and fits = FALSE.
C10_CapacityReport ==
    (last.op = "bpp" /\ Encodable(last.msg)) =>
        LET w == files[last.inp].width
            h == files[last.inp].height
            n == Len(utf8_encode(last.msg))
            r == last.report
        IN  /\ last.status = "ok"
            /\ r.width = w /\ r.height = h
            /\ r.pixels = w * h
            /\ r.capacity_bits = w * h * 3
            /\ r.capacity_bytes = (w * h * 3) \div 8
            /\ r.header_bits = 32
            /\ r.payload_bits = 8 * n
            /\ r.total_bits = 32 + 8 * n
            /\ r.fits <=> (32 + 8 * n <= w * h * 3)
            /\ (w * h = 0) => (r.capacity_bits = 0 /\ ~r.fits)

C10_Witness ==
    /\ last.op = "bpp" /\ last.status = "ok"
    /\ last.report.pixels = 0 /\ last.report.width > 0
    /\ last.report.capacity_bits = 0 /\ ~last.report.fits
    /\ last.report.total_bits = 48

C10_WitnessExactFit ==
    /\ last.op = "bpp" /\ last.status = "ok"
    /\ last.report.total_bits = last.report.capacity_bits
    /\ last.report.fits

\* C11: the pre-flight report and the embed engine agree.  Whenever a report
\* and an embed for the same image and message follow one another (in either
\* order), the report's fits field is true iff the embed succeeded, and it is
\* false iff the embed raised the capacity error.
C11_ReportAgreesWithEmbed ==
    [][/\ (/\ last.op = "bpp" /\ last.status = "ok" /\ last'.op = "embed"
           /\ last'.inp = last.inp /\ last'.msg = last.msg)
          => /\ last.report.fits <=> (last'.status = "ok")
             /\ ~last.report.fits <=> (last'.status = E_CAPACITY)
       /\ (/\ last.op = "embed" /\ last'.op = "bpp" /\ last'.status = "ok"
           /\ last'.inp = last.inp /\ last'.msg = last.msg)
          => /\ last'.report.fits <=> (last.status = "ok")
             /\ ~last'.report.fits <=> (last.status = E_CAPACITY)]_vars

\* An embed that exactly fills the image, reported right afterwards as fitting.
C11_Witness ==
    /\ last.op = "bpp" /\ last.status = "ok" /\ last.report.fits
    /\ last.report.total_bits = last.report.capacity_bits
    /\ files["stego"] # NoFile
    /\ extract_message(files["stego"]).text = last.msg

\* A report that does not fit by one bit, for an image that can hold a header.
C11_WitnessOneBitOver ==
    /\ last.op = "bpp" /\ last.status = "ok" /\ ~last.report.fits
    /\ last.report.total_bits = last.report.capacity_bits + 1
    /\ files["stego"] = NoFile

\* C12: embeds applied one after another to the same image.  (a) An extract
\* that follows a successful embed returns that embed's message, whatever was
\* embedded before.  (b) A successful embed leaves every channel beyond its
\* own frame as it found it, so the LSBs an earlier, longer embed wrote there
\* stay.  (c) Embedding the message just embedded once more into the same
\* image succeeds and changes nothing.
C12_LastEmbedWins ==
    [][/\ (EmbedDone /\ last'.op = "extract" /\ last'.inp = last.out)
          => (last'.status = "ok" /\ last'.text = last.msg)
       /\ (last'.op = "embed" /\ last'.status = "ok")
          => LET before == Channels(files[last'.inp])
                 after == Channels(files'[last'.out])
             IN  /\ Len(after) = Len(before)
                 /\ \A i \in (FrameBitCount(last'.msg) + 1)..Len(before) :
                      after[i] = before[i]
       /\ (/\ EmbedDone /\ last'.op = "embed" /\ last'.msg = last.msg
           /\ last'.inp = last.out /\ last'.out = last.out)
          => (last'.status = "ok" /\ files' = files)]_vars

\* A one-byte message extracted from an image that was embedded in place,
\* whose channels beyond the 40-bit frame still differ from the cover: the
\* remains of an earlier, longer embed.
C12_Witness ==
    /\ chain >= 1
    /\ last.op = "extract" /\ last.status = "ok" /\ last.text = <<65>>
    /\ LET c == Channels(files["cover"])
           st == Channels(files["stego"])
       IN  \E i \in 41..Len(st) : st[i] # c[i]

\* The same message embedded twice in a row.
C12_WitnessTwice ==
    /\ chain >= 1 /\ EmbedDone /\ last.inp = "stego" /\ Len(last.msg) = 2
    /\ extract_message(files["stego"]).text = last.msg
    /\ files["stego"] = embed_message(files["cover"], last.msg).image

====
